---- MODULE Spec2Model ----
(***************************************************************************)
(* Vendor onboarding workflow of the procurement orchestrator.             *)
(*                                                                         *)
(* The model covers orchestrator/vendor_onboarding.py (node functions,     *)
(* routing functions, graph), orchestrator/workflow.py (compilation with   *)
(* interrupts, execute_workflow, resume_workflow) and                      *)
(* orchestrator/state_manager.py (the PostgreSQL mirror and audit log).    *)
(*                                                                         *)
(* The graph is executed by LangGraph's Pregel loop.  What the loop does   *)
(* with this graph is modelled here as the code asks for it:               *)
(*   - every key of VendorOnboardingState is a plain (last value) channel: *)
(*     states.py declares no reducer, so a write replaces the value;       *)
(*   - invoke(input) writes the input, runs the entry node and then one    *)
(*     node per step until no node is triggered, an interrupt is due or    *)
(*     the recursion limit is reached (GraphRecursionError);               *)
(*   - update_state(values) without as_node writes the values as the node  *)
(*     that ran last and re-evaluates that node's outgoing edge;           *)
(*   - invoke(None) resumes: the interrupt_before of the first step is     *)
(*     not taken again;                                                    *)
(*   - a node that raises leaves the checkpoint as it was before the step. *)
(*                                                                         *)
(* Timestamps (created_at, updated_at, transitioned_at) and                *)
(* risk_assessment (always None in this workflow) are left out: no branch  *)
(* of the code reads them.  request_id is the thread id, as in every       *)
(* caller of the repository.                                               *)
(***************************************************************************)
EXTENDS Naturals, Integers, Sequences, FiniteSets, TLC

\* ------------------------------------------------------------------ bounds

\* Calls (start or resume) made on the store in one behaviour.
MaxCalls == 5

\* ------------------------------------------------------- program constants

\* Steps one invoke may run: LangGraph's default, no call overrides it.
RecursionLimit == 25

Threads == {"r1", "r2"}

\* The thread of the specifications that follow one instance.
SingleThread == {"r1"}

Absent == "<absent>"
None == "None"

required_fields == <<"name", "category", "contact_email", "tax_id">>

Slots == {"finance", "legal", "business"}
Keys == Slots \cup {"other"}

END == "__end__"
START == "__start__"
Nodes == {"validate", "central_review", "parallel_routing", "aggregate"}

\* A database call of a node may fail for reasons outside the program (the
\* connection, a constraint of the deployed schema such as the foreign key of
\* workflow_state_transitions.request_id): which call of the node fails.
Faults == {"none", "log", "sync"}

\* What a call returned or raised.
Returned == "returned"
DbError == "DbError"                    \* a database call failed (fault)
SyncKeyError == "SyncKeyError"          \* sync: vendor_data[...] KeyError, re-raised
SyncConflict == "SyncConflict"          \* sync: primary key violation, re-raised
StateKeyError == "StateKeyError"        \* node: state['vendor_data'] KeyError
GraphRecursionError == "GraphRecursionError"
ValueError == "ValueError"              \* get_workflow: unknown workflow type
ForeignKeyViolation == "ForeignKeyViolation"  \* insert refused by a foreign key

VARIABLES
    ckpt,        \* the checkpointer: thread_id -> latest checkpoint
    vendors,     \* table vendors
    requests,    \* table workflow_requests
    transitions, \* table workflow_state_transitions, in insertion order
    call,        \* per thread: the last call made on it and how it ended
    supplied,    \* per thread: what the resumes since the department interrupt supplied
    ncalls,      \* calls made so far
    inflight,    \* per caller: the resume_workflow call it is in the middle of
    observed,    \* the last read made (get_workflow_state, load_vendor_state_from_db)
    process,     \* the running process: its configuration and what the last one left
    approval_records  \* table approvals

vars == <<ckpt, vendors, requests, transitions, call, supplied, ncalls, inflight, observed,
          process, approval_records>>

\* ----------------------------------------------------------- state values

EmptyApprovals == [k \in Keys |-> Absent]

PendingApprovals == [k \in Keys |-> IF k \in Slots THEN None ELSE Absent]

\* vendor_data: the four required keys and one of the keys it may hold besides.
NoVendorData ==
    [name |-> Absent, category |-> Absent, contact_email |-> Absent, tax_id |-> Absent,
     financials |-> Absent]

\* The channels of a thread that was never given an input.
NoState ==
    [current_status |-> Absent, vendor_data |-> NoVendorData,
     central_manager_approval |-> None, dept_approvals |-> EmptyApprovals,
     error |-> <<>>]

NoCheckpoint == [exists |-> FALSE, input |-> FALSE, values |-> NoState, next |-> END, last |-> START]

\* ------------------------------------------------- state_manager.py (mirror)

World == [vendors |-> vendors, requests |-> requests, transitions |-> transitions]

HasVendorKeys(vd) == \A i \in 1..Len(required_fields) : vd[required_fields[i]] # Absent

VendorRow(state, rid) ==
    [id |-> rid, name |-> state.vendor_data.name, category |-> state.vendor_data.category,
     contact_email |-> state.vendor_data.contact_email, tax_id |-> state.vendor_data.tax_id,
     status |-> state.current_status]

Metadata(state) ==
    [central_manager_approval |-> state.central_manager_approval,
     dept_approvals |-> state.dept_approvals, error |-> state.error]

RequestRow(state, rid, vendor_id) ==
    [id |-> rid, entity_id |-> vendor_id, current_status |-> state.current_status,
     metadata |-> Metadata(state)]

\* INSERT INTO vendors ... ON CONFLICT (tax_id) DO UPDATE SET status ... RETURNING id
UpsertVendor(state, rid, w) ==
    LET hit == {v \in w.vendors : v.tax_id = state.vendor_data.tax_id}
    IN  IF hit # {}
        THEN [err |-> "", id |-> (CHOOSE v \in hit : TRUE).id,
              rows |-> {IF v \in hit THEN [v EXCEPT !.status = state.current_status] ELSE v
                        : v \in w.vendors}]
        ELSE IF \E v \in w.vendors : v.id = rid
        THEN [err |-> SyncConflict, id |-> rid, rows |-> w.vendors]
        ELSE [err |-> "", id |-> rid, rows |-> w.vendors \cup {VendorRow(state, rid)}]

\* INSERT INTO workflow_requests ... ON CONFLICT (workflow_type, entity_id) DO UPDATE
UpsertRequest(state, rid, vendor_id, w) ==
    LET hit == {r \in w.requests : r.entity_id = vendor_id}
    IN  IF hit # {}
        THEN [err |-> "",
              rows |-> {IF r \in hit
                        THEN [r EXCEPT !.current_status = state.current_status,
                                       !.metadata = Metadata(state)]
                        ELSE r : r \in w.requests}]
        ELSE IF \E r \in w.requests : r.id = rid
        THEN [err |-> SyncConflict, rows |-> w.requests]
        ELSE [err |-> "", rows |-> w.requests \cup {RequestRow(state, rid, vendor_id)}]

\* The second statement of the sync: the upsert of workflow_requests, or the
\* database failing at it (fault = "requests").
SecondStatement(state, rid, vendor_id, w, fault) ==
    IF fault = "requests" THEN [err |-> DbError, rows |-> w.requests]
    ELSE UpsertRequest(state, rid, vendor_id, w)

\* sync_vendor_state_to_db on a connection that commits each statement.
sync_vendor_state_to_db_autocommit(state, rid, w, fault) ==
    IF fault = "sync" THEN [err |-> DbError, w |-> w]
    ELSE IF ~HasVendorKeys(state.vendor_data) THEN [err |-> SyncKeyError, w |-> w]
    ELSE LET v == UpsertVendor(state, rid, w)
         IN  IF v.err # "" THEN [err |-> v.err, w |-> w]
             ELSE LET r == SecondStatement(state, rid, v.id, w, fault)
                  IN  IF r.err # "" THEN [err |-> r.err, w |-> [w EXCEPT !.vendors = v.rows]]
                      ELSE [err |-> "", w |-> [w EXCEPT !.vendors = v.rows, !.requests = r.rows]]

\* One transaction: both upserts are committed, or the rollback leaves w.
\* fault = "sync": the database fails before the first statement.
sync_vendor_state_to_db(state, rid, w, fault) ==
    IF fault = "sync" THEN [err |-> DbError, w |-> w]
    ELSE IF ~HasVendorKeys(state.vendor_data) THEN [err |-> SyncKeyError, w |-> w]
    ELSE LET v == UpsertVendor(state, rid, w)
         IN  IF v.err # "" THEN [err |-> v.err, w |-> w]
             ELSE LET r == SecondStatement(state, rid, v.id, w, fault)
                  IN  IF r.err # "" THEN [err |-> r.err, w |-> w]
                      ELSE [err |-> "", w |-> [w EXCEPT !.vendors = v.rows, !.requests = r.rows]]

\* load_vendor_state_from_db that leaves the metadata column unread.
load_vendor_state_from_db_no_metadata(rid, w) ==
    LET hit == {x \in w.requests \X w.vendors : x[1].id = rid /\ x[1].entity_id = x[2].id}
    IN  IF hit = {} THEN [found |-> FALSE, state |-> NoState]
        ELSE LET wr == (CHOOSE x \in hit : TRUE)[1]
                 v == (CHOOSE x \in hit : TRUE)[2]
             IN  [found |-> TRUE,
                  state |-> [current_status |-> wr.current_status,
                             vendor_data |-> [name |-> v.name, category |-> v.category,
                                              contact_email |-> v.contact_email,
                                              tax_id |-> v.tax_id, financials |-> Absent],
                             central_manager_approval |-> None,
                             dept_approvals |-> EmptyApprovals,
                             error |-> <<>>]]

\* SELECT ... FROM workflow_requests wr JOIN vendors v ON wr.entity_id = v.id
\* WHERE wr.id = request_id: None when there is no such row, else the state
\* rebuilt from the two rows (request_id is wr.id; vendor_data holds the four
\* vendor columns and no other key).
load_vendor_state_from_db(rid, w) ==
    LET hit == {x \in w.requests \X w.vendors : x[1].id = rid /\ x[1].entity_id = x[2].id}
    IN  IF hit = {} THEN [found |-> FALSE, state |-> NoState]
        ELSE LET wr == (CHOOSE x \in hit : TRUE)[1]
                 v == (CHOOSE x \in hit : TRUE)[2]
             IN  [found |-> TRUE,
                  state |-> [current_status |-> wr.current_status,
                             vendor_data |-> [name |-> v.name, category |-> v.category,
                                              contact_email |-> v.contact_email,
                                              tax_id |-> v.tax_id, financials |-> Absent],
                             central_manager_approval |-> wr.metadata.central_manager_approval,
                             dept_approvals |-> wr.metadata.dept_approvals,
                             error |-> wr.metadata.error]]

\* An INSERT in a transaction of its own, committed before the function returns.
\* workflow_state_transitions.request_id REFERENCES workflow_requests(id): run
\* against the schema as migrated (fault = "fk", nothing else failing) the
\* insert is refused while workflow_requests holds no row with id rid.
log_state_transition(rid, from_status, to_status, reason, w, fault) ==
    IF fault = "log" THEN [err |-> DbError, w |-> w]
    ELSE IF fault = "fk" /\ ~(\E q \in w.requests : q.id = rid)
    THEN [err |-> ForeignKeyViolation, w |-> w]
    ELSE [err |-> "",
          w |-> [w EXCEPT !.transitions =
                    Append(@, [request_id |-> rid, from_status |-> from_status,
                               to_status |-> to_status, reason |-> reason])]]

\* A row of table approvals.  created_at is set when the row is inserted
\* (DEFAULT NOW()) and by nothing else.
ApprovalRow(request_id, approval_type, decision, approver_user_id, comments, now) ==
    [request_id |-> request_id, approval_type |-> approval_type, decision |-> decision,
     approver_user_id |-> approver_user_id, comments |-> comments,
     decided_at |-> now, created_at |-> now]

\* The rows of one (request_id, approval_type).
SlotRows(rows, request_id, approval_type) ==
    {a \in rows : a.request_id = request_id /\ a.approval_type = approval_type}

\* save_approval with a plain INSERT, without the ON CONFLICT clause and the
\* unique constraint it relies on.
save_approval_plain_insert(request_id, approval_type, decision, approver_user_id, comments, now, rows, w, fault) ==
    IF fault # "none" \/ ~(\E q \in w.requests : q.id = request_id)
    THEN [err |-> DbError, rows |-> rows]
    ELSE [err |-> "",
          rows |-> rows \cup {ApprovalRow(request_id, approval_type, decision,
                                          approver_user_id, comments, now)}]

\* save_approval(request_id, approval_type, decision, approver_user_id,
\* comments) at time now: INSERT ... ON CONFLICT (request_id, approval_type)
\* DO UPDATE SET decision, approver_user_id, comments, decided_at.  The insert
\* fails when request_id is no row of workflow_requests (foreign key) or the
\* database call fails (fault); then nothing is committed.
save_approval(request_id, approval_type, decision, approver_user_id, comments, now, rows, w, fault) ==
    IF fault # "none" \/ ~(\E q \in w.requests : q.id = request_id)
    THEN [err |-> DbError, rows |-> rows]
    ELSE LET old == SlotRows(rows, request_id, approval_type)
         IN  IF old = {}
             THEN [err |-> "",
                   rows |-> rows \cup {ApprovalRow(request_id, approval_type, decision,
                                                   approver_user_id, comments, now)}]
             ELSE [err |-> "",
                   rows |-> (rows \ old) \cup
                            {[a EXCEPT !.decision = decision,
                                       !.approver_user_id = approver_user_id,
                                       !.comments = comments,
                                       !.decided_at = now] : a \in old}]

\* Python's True and False as returned values.
PyTrue == "True"
PyFalse == "False"

\* a == b as a Python value.
PyEq(a, b) == IF a = b THEN PyTrue ELSE PyFalse

\* SELECT status FROM vendors WHERE id = vendor_id; result = cur.fetchone();
\* return result and result[0] == 'APPROVED'.  fetchone() gives None when no
\* row matches, and `x and y` evaluates to x when x is falsy: the function
\* returns None then, and the value of the comparison otherwise.  It only
\* reads: the tables it leaves are those it found.
check_vendor_approved(vendor_id, w) ==
    LET result == {<<v.status>> : v \in {x \in w.vendors : x.id = vendor_id}}
    IN  [w |-> w,
         ret |-> IF result = {} THEN None
                 ELSE PyEq((CHOOSE r \in result : TRUE)[1], "APPROVED")]

\* ------------------------------------------- vendor_onboarding.py (nodes)

Falsy(v) == v = Absent \/ v = ""

\* [f for f in required_fields if f not in vendor_data or not vendor_data[f]]
MissingFields(vd) == SelectSeq(required_fields, LAMBDA f : Falsy(vd[f]))

\* f'Missing required fields: {", ".join(missing)}'
MissingError(missing) == <<"Missing required fields">> \o missing

\* The tail of a node that is a pure transformation: it hands new_state to the
\* engine and writes nothing itself.
LogThenSync_pure(state, new_state, reason, rid, w, fault) ==
    [err |-> "", state |-> new_state, w |-> w]

\* The tail of every node that changes the status: log the transition, then
\* sync the new state; the node returns new_state only if neither raised.
LogThenSync(state, new_state, reason, rid, w, fault) ==
    LET l == log_state_transition(rid, state.current_status, new_state.current_status,
                                  reason, w, fault)
    IN  IF l.err # "" THEN [err |-> l.err, state |-> state, w |-> w]
        ELSE LET s == sync_vendor_state_to_db(new_state, rid, l.w, fault)
             IN  IF s.err # "" THEN [err |-> s.err, state |-> state, w |-> l.w]
                 ELSE [err |-> "", state |-> new_state, w |-> s.w]

\* validate_submission without 'error': None in the state it passes on.
validate_submission_keeps_error(state, rid, w, fault) ==
    LET missing == MissingFields(state.vendor_data)
    IN  IF missing # <<>>
        THEN LogThenSync(state,
                         [state EXCEPT !.current_status = "REJECTED",
                                       !.error = MissingError(missing)],
                         "Validation failed", rid, w, fault)
        ELSE LogThenSync(state, [state EXCEPT !.current_status = "CENTRAL_PENDING"],
                         None, rid, w, fault)

validate_submission(state, rid, w, fault) ==
    LET missing == MissingFields(state.vendor_data)
    IN  IF missing # <<>>
        THEN LogThenSync(state,
                         [state EXCEPT !.current_status = "REJECTED",
                                       !.error = MissingError(missing)],
                         "Validation failed", rid, w, fault)
        ELSE LogThenSync(state,
                         [state EXCEPT !.current_status = "CENTRAL_PENDING", !.error = <<>>],
                         None, rid, w, fault)

central_manager_review(state, rid, w, fault) == [err |-> "", state |-> state, w |-> w]

\* route_to_parallel_approvals that keeps the decisions the map already holds.
route_to_parallel_approvals_keeps(state, rid, w, fault) ==
    LogThenSync(state,
                [state EXCEPT !.current_status = "DEPT_REVIEW",
                              !.dept_approvals =
                                  [k \in Keys |-> IF @[k] # Absent THEN @[k]
                                                  ELSE PendingApprovals[k]]],
                None, rid, w, fault)

route_to_parallel_approvals(state, rid, w, fault) ==
    LogThenSync(state,
                [state EXCEPT !.current_status = "DEPT_REVIEW",
                              !.dept_approvals = PendingApprovals],
                None, rid, w, fault)

\* approvals.values(): the decisions of the keys the map holds
Values(approvals) == {approvals[k] : k \in {x \in Keys : approvals[x] # Absent}}

\* aggregate_dept_approvals that rejects as soon as one decision is a
\* rejection, before it looks for departments that have not responded.
aggregate_dept_approvals_short_circuit(state, rid, w, fault) ==
    LET approvals == state.dept_approvals
    IN  IF \E v \in Values(approvals) : v = "rejected"
        THEN LogThenSync(state, [state EXCEPT !.current_status = "REJECTED"],
                         "All department approvals collected", rid, w, fault)
        ELSE IF \E v \in Values(approvals) : v = None
        THEN [err |-> "", state |-> state, w |-> w]
        ELSE LogThenSync(state, [state EXCEPT !.current_status = "APPROVED"],
                         "All department approvals collected", rid, w, fault)

aggregate_dept_approvals(state, rid, w, fault) ==
    LET approvals == state.dept_approvals
    IN  IF \E v \in Values(approvals) : v = None
        THEN [err |-> "", state |-> state, w |-> w]
        ELSE LET all_approved == \A v \in Values(approvals) : v = "approved"
                 final_status == IF all_approved THEN "APPROVED" ELSE "REJECTED"
             IN  LogThenSync(state, [state EXCEPT !.current_status = final_status],
                             "All department approvals collected", rid, w, fault)

should_proceed_after_validation(state) ==
    IF state.current_status = "REJECTED" THEN "reject" ELSE "proceed"

\* A routing function that hands on the decision it finds, None included.
should_proceed_after_central_review_returns_decision(state) ==
    state.central_manager_approval

should_proceed_after_central_review(state) ==
    IF state.central_manager_approval = None THEN "rejected"
    ELSE IF state.central_manager_approval = "approved" THEN "approved"
    ELSE "rejected"

check_all_dept_approvals_complete(state) ==
    IF \A v \in Values(state.dept_approvals) : v # None THEN "complete" ELSE "waiting"

\* The edge maps of add_conditional_edges: route returned -> node triggered.
validate_edges == [proceed |-> "central_review", reject |-> END]

central_review_edges == [approved |-> "parallel_routing", rejected |-> END]

aggregate_edges == [complete |-> END, waiting |-> "aggregate"]

\* The nodes with a conditional edge, the routing function and the edge map of each.
RoutedNodes == {"validate", "central_review", "aggregate"}

RoutingFunction(n, state) ==
    CASE n = "validate" -> should_proceed_after_validation(state)
      [] n = "central_review" -> should_proceed_after_central_review(state)
      [] n = "aggregate" -> check_all_dept_approvals_complete(state)

EdgeMap(n) ==
    CASE n = "validate" -> validate_edges
      [] n = "central_review" -> central_review_edges
      [] n = "aggregate" -> aggregate_edges

\* The edges of create_vendor_onboarding_workflow: the node triggered once
\* node n has written state (END: none).
Successor(n, state) ==
    CASE n = START -> "validate"
      [] n = "validate" ->
            IF should_proceed_after_validation(state) = "proceed" THEN "central_review" ELSE END
      [] n = "central_review" ->
            IF should_proceed_after_central_review(state) = "approved"
            THEN "parallel_routing" ELSE END
      [] n = "parallel_routing" -> "aggregate"
      [] n = "aggregate" ->
            IF check_all_dept_approvals_complete(state) = "complete" THEN END ELSE "aggregate"

\* ------------------------------------------------- workflow.py (the engine)

\* interrupt_before naming the entry node instead of central_review.
interrupt_before_validate == {"validate"}

interrupt_before == {"central_review"}

interrupt_after == {"parallel_routing"}

\* The node function bound to node n, run on the channels of checkpoint cp.
\* A thread that never had an input has no vendor_data channel: validate
\* raises KeyError on state['vendor_data'].
RunNode(n, cp, rid, w, fault) ==
    CASE n = "validate" ->
            IF ~cp.input THEN [err |-> StateKeyError, state |-> cp.values, w |-> w]
            ELSE validate_submission(cp.values, rid, w, fault)
      [] n = "central_review" -> central_manager_review(cp.values, rid, w, fault)
      [] n = "parallel_routing" -> route_to_parallel_approvals(cp.values, rid, w, fault)
      [] n = "aggregate" -> aggregate_dept_approvals(cp.values, rid, w, fault)

\* An invoke that stores the checkpoint of a step although its node raised.
RECURSIVE Invoke_checkpoints_failed_step(_, _, _, _, _, _)
Invoke_checkpoints_failed_step(cp, rid, w, fault, fresh, budget) ==
    IF budget = 0 THEN [cp |-> cp, w |-> w, ret |-> GraphRecursionError]
    ELSE IF cp.next = END THEN [cp |-> cp, w |-> w, ret |-> Returned]
    ELSE IF fresh /\ cp.next \in interrupt_before THEN [cp |-> cp, w |-> w, ret |-> Returned]
    ELSE LET n == cp.next
             r == RunNode(n, cp, rid, w, fault)
             cp1 == [cp EXCEPT !.values = r.state, !.next = Successor(n, r.state), !.last = n]
         IN  IF r.err # "" THEN [cp |-> cp1, w |-> r.w, ret |-> r.err]
             ELSE IF n \in interrupt_after THEN [cp |-> cp1, w |-> r.w, ret |-> Returned]
             ELSE Invoke_checkpoints_failed_step(cp1, rid, r.w, fault, TRUE, budget - 1)

\* app.invoke from checkpoint cp: the steps of one call.  fresh: a channel was
\* written since the last interrupt was resumed; budget: steps left.
RECURSIVE Invoke(_, _, _, _, _, _)
Invoke(cp, rid, w, fault, fresh, budget) ==
    IF budget = 0 THEN [cp |-> cp, w |-> w, ret |-> GraphRecursionError]
    ELSE IF cp.next = END THEN [cp |-> cp, w |-> w, ret |-> Returned]
    ELSE IF fresh /\ cp.next \in interrupt_before THEN [cp |-> cp, w |-> w, ret |-> Returned]
    ELSE LET n == cp.next
             r == RunNode(n, cp, rid, w, fault)
             cp1 == [cp EXCEPT !.values = r.state, !.next = Successor(n, r.state), !.last = n]
         IN  IF r.err # "" THEN [cp |-> cp, w |-> r.w, ret |-> r.err]
             ELSE IF n \in interrupt_after THEN [cp |-> cp1, w |-> r.w, ret |-> Returned]
             ELSE Invoke(cp1, rid, r.w, fault, TRUE, budget - 1)

\* app.update_state(config, update_state) with no as_node: the values are
\* written as the node that ran last (the entry when nothing ran); each key of
\* the update replaces the channel's value; that node's edge is evaluated on
\* the updated state and decides what runs next.
update_state(cp, update) ==
    LET values == [cp.values EXCEPT
                     !.central_manager_approval =
                         IF update.central_manager_approval # Absent
                         THEN update.central_manager_approval ELSE @,
                     !.dept_approvals =
                         IF update.has_dept_approvals THEN update.dept_approvals ELSE @]
    IN  [cp EXCEPT !.exists = TRUE, !.values = values, !.next = Successor(cp.last, values)]

\* app.invoke(initial_state, config): the input is written to every channel
\* and the entry node is triggered, whatever the thread held before.
InputCheckpoint(initial_state) ==
    [exists |-> TRUE, input |-> TRUE, values |-> initial_state,
     next |-> Successor(START, initial_state), last |-> START]

execute_workflow(initial_state, rid, w, fault) ==
    Invoke(InputCheckpoint(initial_state), rid, w, fault, TRUE, RecursionLimit)

resume_workflow(cp, update, rid, w, fault) ==
    Invoke(update_state(cp, update), rid, w, fault, FALSE, RecursionLimit)

\* get_workflow_state that fetches the state by running the instance
\* (app.invoke(None, config)) instead of reading it (app.get_state(config)).
get_workflow_state_by_invoke(cp, rid, w) ==
    LET r == Invoke(cp, rid, w, "none", FALSE, RecursionLimit)
    IN  [cp |-> r.cp, w |-> r.w, ret |-> r.cp.values]

\* state = app.get_state(config); return state.values if state else None.
\* get_state reads the latest checkpoint; for a thread without one it returns
\* a snapshot with no values, which is truthy (a named tuple).
get_workflow_state(cp, rid, w) == [cp |-> cp, w |-> w, ret |-> cp.values]

\* The registry: the workflow types that have a compiled application.
WORKFLOWS == {"vendor_onboarding"}

\* A get_workflow that hands out the vendor onboarding application for any type.
get_workflow_default(workflow_type) == [err |-> ""]

\* get_workflow(workflow_type): the application, or ValueError.
get_workflow(workflow_type) ==
    IF workflow_type \notin WORKFLOWS THEN [err |-> ValueError] ELSE [err |-> ""]

\* The three helpers as called, workflow_type first: get_workflow before
\* anything else; cp is the checkpoint of the thread.
execute_workflow_by_type(workflow_type, initial_state, cp, rid, w, fault) ==
    IF get_workflow(workflow_type).err # ""
    THEN [cp |-> cp, w |-> w, ret |-> get_workflow(workflow_type).err]
    ELSE execute_workflow(initial_state, rid, w, fault)

resume_workflow_by_type(workflow_type, cp, update, rid, w, fault) ==
    IF get_workflow(workflow_type).err # ""
    THEN [cp |-> cp, w |-> w, ret |-> get_workflow(workflow_type).err]
    ELSE resume_workflow(cp, update, rid, w, fault)

get_workflow_state_by_type(workflow_type, cp, rid, w) ==
    IF get_workflow(workflow_type).err # ""
    THEN [cp |-> cp, w |-> w, ret |-> get_workflow(workflow_type).err]
    ELSE [cp |-> cp, w |-> w, ret |-> Returned]

\* ------------------------------------------------------------------ inputs

ValidVendor ==
    [name |-> "Acme", category |-> "IT", contact_email |-> "a@acme.com", tax_id |-> "T1",
     financials |-> Absent]

\* Submissions without a usable name or tax_id: the key left out, or empty.
InvalidVendors ==
    {[ValidVendor EXCEPT !.tax_id = Absent], [ValidVendor EXCEPT !.tax_id = ""],
     [ValidVendor EXCEPT !.name = ""], [ValidVendor EXCEPT !.name = "", !.tax_id = Absent]}

AllApproved == [k \in Keys |-> IF k \in Slots THEN "approved" ELSE Absent]

Draft(vendor_data, dept_approvals, error) ==
    [current_status |-> "DRAFT", vendor_data |-> vendor_data,
     central_manager_approval |-> None, dept_approvals |-> dept_approvals, error |-> error]

\* The initial states callers submit: status DRAFT, no central approval yet;
\* a valid submission may carry approvals or an error left from elsewhere.
InitialStates ==
    {Draft(ValidVendor, d, e) : d \in {EmptyApprovals, AllApproved}, e \in {<<>>, <<"stale">>}}
    \cup {Draft(v, EmptyApprovals, <<>>) : v \in InvalidVendors}

Decisions == {"approved", "rejected"}

\* A dept_approvals map that holds decision d for the slots of S and, for the
\* other slots, either no key at all (rest = Absent) or None (rest = None).
DeptMap(S, d, rest) ==
    [k \in Keys |-> IF k \in S THEN d ELSE IF k \in Slots THEN rest ELSE Absent]

\* The dept_approvals maps a caller sends: one decision, the decisions of
\* finance and legal, all three decisions (approved, or legal rejecting), no
\* decision, or a decision under a key that is no declared slot.
DeptMaps ==
    {DeptMap({k}, d, rest) : k \in Slots, d \in Decisions, rest \in {Absent, None}}
    \cup {DeptMap({"finance", "legal"}, "approved", rest) : rest \in {Absent, None}}
    \cup {AllApproved, [AllApproved EXCEPT !["legal"] = "rejected"]}
    \cup {EmptyApprovals, PendingApprovals}
    \cup {[EmptyApprovals EXCEPT !["other"] = "approved"]}

NoUpdate == [central_manager_approval |-> Absent, has_dept_approvals |-> FALSE,
             dept_approvals |-> EmptyApprovals]

CentralUpdate(c) == [NoUpdate EXCEPT !.central_manager_approval = c]

DeptUpdate(m) == [NoUpdate EXCEPT !.has_dept_approvals = TRUE, !.dept_approvals = m]

\* The updates callers resume with: nothing, the central manager's decision,
\* department decisions, or both at once.
Updates ==
    {NoUpdate}
    \cup {CentralUpdate(c) : c \in Decisions}
    \cup {DeptUpdate(m) : m \in DeptMaps}
    \cup {[central_manager_approval |-> "approved", has_dept_approvals |-> TRUE,
           dept_approvals |-> AllApproved]}

\* Department decisions are sent in every shape once the departments were
\* asked (parallel_routing ran); before that, callers send the central
\* manager's decision, nothing, or a complete or partial set of approvals.
UpdatesAt(cp) ==
    IF cp.last \in {"parallel_routing", "aggregate"} THEN Updates
    ELSE {u \in Updates :
            u.has_dept_approvals =>
                u.dept_approvals \in {AllApproved, DeptMap({"finance"}, "approved", None)}}

\* ----------------------------------------------------------------- history

\* call[t]: the last call on thread t: its number, its operation and argument
\* (input of a start, update of a resume), where the instance was when the
\* call was made (at: the node due next, after: the node that ran last) and
\* what the call returned or raised.
NoCall == [seq |-> 0, op |-> "none", input |-> NoState, update |-> NoUpdate,
           ret |-> Returned, at |-> END, after |-> START]

\* supplied[t]: what the resumes made since the instance was suspended at the
\* department interrupt have sent: the slots sent as approved, whether a
\* rejection was sent, whether a database call failed, and, as long as every
\* such resume held exactly one approved decision (one_by_one), their order.
NoSupply == [active |-> FALSE, approved |-> {}, rejected |-> FALSE, db_error |-> FALSE,
             order |-> <<>>, one_by_one |-> FALSE]

\* The update holds one approved decision, for slot k, and nothing else.
OnlyApproves(update, k) ==
    /\ update.central_manager_approval = Absent
    /\ update.has_dept_approvals
    /\ update.dept_approvals = [EmptyApprovals EXCEPT ![k] = "approved"]

\* The instance is suspended at the department interrupt: parallel_routing
\* ran last and aggregate is next.
AtDeptInterrupt(cp) == cp.exists /\ cp.last = "parallel_routing" /\ cp.next = "aggregate"

AtCentralInterrupt(cp) == cp.exists /\ cp.last = "validate" /\ cp.next = "central_review"

Supply(s, cp, update, r) ==
    IF r.cp.last = "parallel_routing" /\ cp.last # "parallel_routing"
    THEN [NoSupply EXCEPT !.active = TRUE, !.one_by_one = TRUE]
    ELSE IF ~s.active THEN s
    ELSE [s EXCEPT
            !.db_error = @ \/ r.ret = DbError,
            !.approved = IF update.has_dept_approvals
                         THEN @ \cup {k \in Slots : update.dept_approvals[k] = "approved"}
                         ELSE @,
            !.rejected = @ \/ (update.has_dept_approvals
                               /\ \E k \in Keys : update.dept_approvals[k] = "rejected"),
            !.order = IF s.one_by_one /\ \E k \in Slots : OnlyApproves(update, k)
                      THEN Append(@, CHOOSE k \in Slots : OnlyApproves(update, k))
                      ELSE <<>>,
            !.one_by_one = @ /\ \E k \in Slots : OnlyApproves(update, k)]

\* Callers that may be inside resume_workflow at the same time.
Procs == {"p1", "p2"}

\* inflight[p]: where caller p is inside resume_workflow: idle, or it has
\* loaded the checkpoint of thread t (base) to apply update to it ("loaded"),
\* or it has written the updated checkpoint and is about to invoke ("written").
Idle == [phase |-> "idle", thread |-> "r1", update |-> NoUpdate, base |-> NoCheckpoint]

\* observed: how many reads were made, and the operation, argument and
\* result of the last one.
NoRead == [n |-> 0, op |-> "none", thread |-> "r1", ok |-> TRUE, ret |-> NoState]

\* ----------------------------------------------------------------- actions

\* The first process of a deployment.  USE_POSTGRES_CHECKPOINT is read from the
\* environment when the module is imported and defaults to "false"; stopped and
\* stopped_at are what the process before it left (none).
FirstProcess(use_postgres) ==
    [USE_POSTGRES_CHECKPOINT |-> use_postgres, boots |-> 1,
     stopped |-> [t \in Threads |-> NoCheckpoint], stopped_at |-> 0]

Init ==
    /\ ckpt = [t \in Threads |-> NoCheckpoint]
    /\ vendors = {}
    /\ requests = {}
    /\ transitions = <<>>
    /\ call = [t \in Threads |-> NoCall]
    /\ supplied = [t \in Threads |-> NoSupply]
    /\ ncalls = 0
    /\ inflight = [p \in Procs |-> Idle]
    /\ observed = NoRead
    /\ process = FirstProcess(FALSE)
    /\ approval_records = {}

Commit(t, r, op, input, update, at) ==
    /\ ckpt' = [ckpt EXCEPT ![t] = r.cp]
    /\ vendors' = r.w.vendors
    /\ requests' = r.w.requests
    /\ transitions' = r.w.transitions
    /\ call' = [call EXCEPT ![t] = [seq |-> ncalls + 1, op |-> op, input |-> input,
                                    update |-> update, ret |-> r.ret,
                                    at |-> at.next, after |-> at.last]]
    /\ ncalls' = ncalls + 1

Start(t, initial_state, fault) ==
    /\ ncalls < MaxCalls
    /\ ~ckpt[t].exists
    /\ Commit(t, execute_workflow(initial_state, t, World, fault), "start", initial_state,
              NoUpdate, ckpt[t])
    /\ supplied' = [supplied EXCEPT ![t] = NoSupply]
    /\ UNCHANGED <<inflight, observed, process, approval_records>>

Resume(t, update, fault) ==
    /\ ncalls < MaxCalls
    /\ LET r == resume_workflow(ckpt[t], update, t, World, fault)
       IN  /\ Commit(t, r, "resume", NoState, update, ckpt[t])
           /\ supplied' = [supplied EXCEPT ![t] = Supply(@, ckpt[t], update, r)]
           /\ UNCHANGED <<inflight, observed, process, approval_records>>

Next ==
    \/ \E t \in SingleThread, s \in InitialStates, f \in Faults : Start(t, s, f)
    \/ \E t \in SingleThread : \E u \in UpdatesAt(ckpt[t]), f \in Faults : Resume(t, u, f)

Spec == Init /\ [][Next]_vars

\* ------------------------------------------------ with get_workflow_state

\* Calls and reads made in one behaviour of SpecInspect.
MaxInspectCalls == 3
MaxReads == 2

GetWorkflowState(t) ==
    /\ observed.n < MaxReads
    /\ LET r == get_workflow_state(ckpt[t], t, World)
       IN  /\ ckpt' = [ckpt EXCEPT ![t] = r.cp]
           /\ vendors' = r.w.vendors
           /\ requests' = r.w.requests
           /\ transitions' = r.w.transitions
           /\ observed' = [n |-> observed.n + 1, op |-> "get_workflow_state",
                           thread |-> t, ok |-> TRUE, ret |-> r.ret]
    /\ UNCHANGED <<call, supplied, ncalls, inflight,
                 process, approval_records>>

InspectStart(t, initial_state, fault) ==
    /\ ncalls < MaxInspectCalls
    /\ Start(t, initial_state, fault)

InspectResume(t, update, fault) ==
    /\ ncalls < MaxInspectCalls
    /\ Resume(t, update, fault)

NextInspect ==
    \/ \E t \in SingleThread, s \in InitialStates, f \in Faults : InspectStart(t, s, f)
    \/ \E t \in SingleThread : \E u \in UpdatesAt(ckpt[t]), f \in Faults : InspectResume(t, u, f)
    \/ \E t \in SingleThread : GetWorkflowState(t)

SpecInspect == Init /\ [][NextInspect]_vars

\* ----------------------------------------- state_manager.py, called directly

\* Calls of sync_vendor_state_to_db and load_vendor_state_from_db made in one
\* behaviour of SpecDb.
MaxDbOps == 3

\* The states synced: the submission of one vendor at several points of its
\* workflow, the same with the financials key the test submits, with another
\* name under the same tax_id, another vendor, and a state without tax_id.
DbStates ==
    {[Draft(ValidVendor, EmptyApprovals, <<>>) EXCEPT !.current_status = c] :
        c \in {"CENTRAL_PENDING", "DEPT_REVIEW"}}
    \cup {[current_status |-> "APPROVED", vendor_data |-> ValidVendor,
           central_manager_approval |-> "approved", dept_approvals |-> AllApproved,
           error |-> <<>>]}
    \cup {Draft([ValidVendor EXCEPT !.financials = "F"], EmptyApprovals, <<>>),
          Draft([ValidVendor EXCEPT !.name = "Bolt"], EmptyApprovals, <<>>),
          Draft([ValidVendor EXCEPT !.name = "Bolt", !.tax_id = "T2"], EmptyApprovals, <<>>),
          Draft([ValidVendor EXCEPT !.tax_id = Absent], EmptyApprovals, <<>>)}

SetTables(w) ==
    /\ vendors' = w.vendors
    /\ requests' = w.requests
    /\ transitions' = w.transitions

\* sync_vendor_state_to_db(state), state['request_id'] being rid.
DbSync(rid, state) ==
    /\ observed.n < MaxDbOps
    /\ LET r == sync_vendor_state_to_db(state, rid, World, "none")
       IN  /\ SetTables(r.w)
           /\ observed' = [n |-> observed.n + 1, op |-> "sync", thread |-> rid,
                           ok |-> r.err = "", ret |-> state]
    /\ UNCHANGED <<ckpt, call, supplied, ncalls, inflight,
                 process, approval_records>>

\* load_vendor_state_from_db(rid).
DbLoad(rid) ==
    /\ observed.n < MaxDbOps
    /\ LET l == load_vendor_state_from_db(rid, World)
       IN  observed' = [n |-> observed.n + 1, op |-> "load", thread |-> rid,
                        ok |-> l.found, ret |-> l.state]
    /\ UNCHANGED <<ckpt, vendors, requests, transitions, call, supplied, ncalls, inflight,
                 process, approval_records>>

\* sync_vendor_state_to_db(load_vendor_state_from_db(rid)), for a record that exists.
DbSaveLoaded(rid) ==
    /\ observed.n < MaxDbOps
    /\ LET l == load_vendor_state_from_db(rid, World)
           r == sync_vendor_state_to_db(l.state, rid, World, "none")
       IN  /\ l.found
           /\ SetTables(r.w)
           /\ observed' = [n |-> observed.n + 1, op |-> "save_loaded", thread |-> rid,
                           ok |-> r.err = "", ret |-> l.state]
    /\ UNCHANGED <<ckpt, call, supplied, ncalls, inflight,
                 process, approval_records>>

NextDb ==
    \/ \E rid \in Threads, s \in DbStates : DbSync(rid, s)
    \/ \E rid \in Threads : DbLoad(rid)
    \/ \E rid \in Threads : DbSaveLoaded(rid)

SpecDb == Init /\ [][NextDb]_vars

\* ------------------------------------------------------------ two threads

\* Calls made in one behaviour of SpecThreads.
MaxThreadCalls == 3

\* Two submissions of the vendor with tax_id T1, and one of another vendor.
ThreadInitialStates ==
    {Draft(ValidVendor, EmptyApprovals, <<>>),
     Draft([ValidVendor EXCEPT !.name = "Bolt", !.tax_id = "T2"], EmptyApprovals, <<>>)}

ThreadUpdates == {CentralUpdate("approved"), DeptUpdate(AllApproved)}

ThreadStart(t, initial_state, fault) ==
    /\ ncalls < MaxThreadCalls
    /\ Start(t, initial_state, fault)

ThreadResume(t, update, fault) ==
    /\ ncalls < MaxThreadCalls
    /\ ckpt[t].exists
    /\ Resume(t, update, fault)

NextThreads ==
    \/ \E t \in Threads, s \in ThreadInitialStates, f \in Faults : ThreadStart(t, s, f)
    \/ \E t \in Threads, u \in ThreadUpdates, f \in Faults : ThreadResume(t, u, f)

SpecThreads == Init /\ [][NextThreads]_vars

\* ------------------------------------------- resume_workflow, step by step

\* Calls made in one behaviour of SpecRace.
MaxRaceCalls == 3

\* The submission and the updates of the racing callers.
RaceInitialState == Draft(ValidVendor, EmptyApprovals, <<>>)

RaceUpdates ==
    {CentralUpdate(c) : c \in Decisions}
    \cup {DeptUpdate(DeptMap({k}, "approved", None)) : k \in {"finance", "legal"}}
    \cup {DeptUpdate(AllApproved)}

\* app.update_state, first half: the caller reads the latest checkpoint of the
\* thread from the checkpointer.
UpdateStateLoad(p, t, update) ==
    /\ ncalls < MaxRaceCalls
    /\ inflight[p].phase = "idle"
    /\ ckpt[t].exists
    /\ inflight' = [inflight EXCEPT ![p] = [phase |-> "loaded", thread |-> t,
                                            update |-> update, base |-> ckpt[t]]]
    /\ UNCHANGED <<ckpt, vendors, requests, transitions, call, supplied, ncalls, observed,
                 process, approval_records>>

\* app.update_state, second half: the caller stores the checkpoint it read,
\* with its update applied, as the latest checkpoint of the thread.  The
\* checkpointer takes it whatever was stored since the read.
UpdateStatePut(p) ==
    /\ inflight[p].phase = "loaded"
    /\ ckpt' = [ckpt EXCEPT ![inflight[p].thread] =
                    update_state(inflight[p].base, inflight[p].update)]
    /\ inflight' = [inflight EXCEPT ![p].phase = "written"]
    /\ UNCHANGED <<vendors, requests, transitions, call, supplied, ncalls, observed,
                 process, approval_records>>

\* app.invoke(None, config): the run from the latest checkpoint of the thread.
InvokeNone(p, fault) ==
    /\ inflight[p].phase = "written"
    /\ LET t == inflight[p].thread
           r == Invoke(ckpt[t], t, World, fault, FALSE, RecursionLimit)
       IN  /\ Commit(t, r, "resume", NoState, inflight[p].update, ckpt[t])
           /\ supplied' = supplied
    /\ inflight' = [inflight EXCEPT ![p] = Idle]
    /\ UNCHANGED <<observed, process, approval_records>>

RaceStart(t, fault) ==
    /\ ncalls < MaxRaceCalls
    /\ Start(t, RaceInitialState, fault)

NextRace ==
    \/ \E t \in SingleThread, f \in Faults : RaceStart(t, f)
    \/ \E p \in Procs, t \in SingleThread, u \in RaceUpdates : UpdateStateLoad(p, t, u)
    \/ \E p \in Procs : UpdateStatePut(p)
    \/ \E p \in Procs, f \in Faults : InvokeNone(p, f)

SpecRace == Init /\ [][NextRace]_vars

\* ------------------------------------------------------- process restarts

\* Calls made, and processes run, in one behaviour of SpecRestart.
MaxRestartCalls == 3
MaxBoots == 2

RestartInitialState == Draft(ValidVendor, EmptyApprovals, <<>>)

RestartUpdates == {NoUpdate, CentralUpdate("approved"), DeptUpdate(AllApproved)}

\* The deployment sets USE_POSTGRES_CHECKPOINT or leaves it unset.
InitRestart ==
    /\ ckpt = [t \in Threads |-> NoCheckpoint]
    /\ vendors = {}
    /\ requests = {}
    /\ transitions = <<>>
    /\ call = [t \in Threads |-> NoCall]
    /\ supplied = [t \in Threads |-> NoSupply]
    /\ ncalls = 0
    /\ inflight = [p \in Procs |-> Idle]
    /\ observed = NoRead
    /\ \E use_postgres \in BOOLEAN : process = FirstProcess(use_postgres)
    /\ approval_records = {}

\* The process stops and a new one imports the module: checkpointer is a new
\* InMemorySaver(), which holds nothing, or a PostgresSaver on the same
\* database, which holds what the last process wrote.  The tables stay.
Restart ==
    /\ process.boots < MaxBoots
    /\ process' = [process EXCEPT !.boots = @ + 1, !.stopped = ckpt, !.stopped_at = ncalls]
    /\ ckpt' = IF process.USE_POSTGRES_CHECKPOINT THEN ckpt
               ELSE [t \in Threads |-> NoCheckpoint]
    /\ UNCHANGED <<vendors, requests, transitions, call, supplied, ncalls, inflight,
                   observed, approval_records>>

RestartStart(t, fault) ==
    /\ ncalls < MaxRestartCalls
    /\ Start(t, RestartInitialState, fault)

RestartResume(t, update, fault) ==
    /\ ncalls < MaxRestartCalls
    /\ Resume(t, update, fault)

NextRestart ==
    \/ \E t \in SingleThread, f \in Faults : RestartStart(t, f)
    \/ \E t \in SingleThread, u \in RestartUpdates, f \in Faults : RestartResume(t, u, f)
    \/ Restart

SpecRestart == InitRestart /\ [][NextRestart]_vars

\* ------------------------------------------------------ save_approval calls

\* Calls made in one behaviour of SpecApprovals.
MaxApprovalOps == 4

ApprovalTypes == {"central_manager", "finance"}

\* The decision, approver and comments of a call.
Submissions ==
    {[decision |-> "approved", approver_user_id |-> "u1", comments |-> None],
     [decision |-> "rejected", approver_user_id |-> "u2", comments |-> "late"]}

ApprovalFaults == {"none", "insert"}

\* The submission of thread t: one vendor per thread.
ApprovalInitialState(t) ==
    IF t = "r1" THEN Draft(ValidVendor, EmptyApprovals, <<>>)
    ELSE Draft([ValidVendor EXCEPT !.name = "Bolt", !.tax_id = "T2"], EmptyApprovals, <<>>)

ApprovalsStart(t) ==
    /\ ncalls < MaxApprovalOps
    /\ Start(t, ApprovalInitialState(t), "none")

\* save_approval(rid, approval_type, ...), the time being the number of the call.
SaveApproval(rid, approval_type, sub, fault) ==
    /\ ncalls < MaxApprovalOps
    /\ LET now == ncalls + 1
           r == save_approval(rid, approval_type, sub.decision, sub.approver_user_id,
                              sub.comments, now, approval_records, World, fault)
       IN  /\ approval_records' = r.rows
           /\ observed' = [n |-> observed.n + 1, op |-> "save_approval", thread |-> rid,
                           ok |-> r.err = "",
                           ret |-> [approval_type |-> approval_type, sub |-> sub,
                                    decided_at |-> now]]
    /\ ncalls' = ncalls + 1
    /\ UNCHANGED <<ckpt, vendors, requests, transitions, call, supplied, inflight, process>>

NextApprovals ==
    \/ \E t \in Threads : ApprovalsStart(t)
    \/ \E rid \in Threads, ty \in ApprovalTypes, sub \in Submissions, f \in ApprovalFaults :
          SaveApproval(rid, ty, sub, f)

SpecApprovals == Init /\ [][NextApprovals]_vars

\* ------------------------------------------- execute_workflow, called again

\* Calls made in one behaviour of SpecResubmit.
MaxResubmitCalls == 4

ResubmitInitialState == Draft(ValidVendor, EmptyApprovals, <<>>)

ResubmitUpdates == {CentralUpdate("approved"), DeptUpdate(AllApproved)}

\* execute_workflow(workflow_type, initial_state, thread_id) on any thread,
\* one that already has an instance included: app.invoke(initial_state, config)
\* writes the input over the channels of the thread and runs from the entry
\* point.
ExecuteWorkflow(t, initial_state, fault) ==
    /\ ncalls < MaxResubmitCalls
    /\ Commit(t, execute_workflow(initial_state, t, World, fault), "start", initial_state,
              NoUpdate, ckpt[t])
    /\ supplied' = [supplied EXCEPT ![t] = NoSupply]
    /\ UNCHANGED <<inflight, observed, process, approval_records>>

ResubmitResume(t, update, fault) ==
    /\ ncalls < MaxResubmitCalls
    /\ ckpt[t].exists
    /\ Resume(t, update, fault)

NextResubmit ==
    \/ \E t \in SingleThread, f \in Faults : ExecuteWorkflow(t, ResubmitInitialState, f)
    \/ \E t \in SingleThread, u \in ResubmitUpdates, f \in Faults : ResubmitResume(t, u, f)

SpecResubmit == Init /\ [][NextResubmit]_vars

\* ------------------------------------------------------ dependency checks

\* Calls made in one behaviour of SpecDeps.
MaxDepOps == 3

\* check_vendor_approved(vendor_id).
CheckVendorApproved(vendor_id) ==
    /\ observed.n < MaxDepOps
    /\ LET r == check_vendor_approved(vendor_id, World)
       IN  /\ SetTables(r.w)
           /\ observed' = [n |-> observed.n + 1, op |-> "check_vendor_approved",
                           thread |-> vendor_id, ok |-> TRUE,
                           ret |-> [returned |-> r.ret]]
    /\ UNCHANGED <<ckpt, call, supplied, ncalls, inflight, process, approval_records>>

NextDeps ==
    \/ \E rid \in Threads, s \in DbStates : DbSync(rid, s)
    \/ \E vendor_id \in Threads : CheckVendorApproved(vendor_id)

SpecDeps == Init /\ [][NextDeps]_vars

\* ------------------------------------------------- failing calls, retried

\* Calls made in one behaviour of SpecFaults: a start, a call that fails and
\* the retries.
MaxFaultCalls == 4

FaultStart(t, initial_state, fault) ==
    /\ ncalls < MaxFaultCalls
    /\ Start(t, initial_state, fault)

FaultResume(t, update, fault) ==
    /\ ncalls < MaxFaultCalls
    /\ Resume(t, update, fault)

NextFaults ==
    \/ \E t \in SingleThread, s \in InitialStates, f \in Faults : FaultStart(t, s, f)
    \/ \E t \in SingleThread : \E u \in UpdatesAt(ckpt[t]), f \in Faults : FaultResume(t, u, f)

SpecFaults == Init /\ [][NextFaults]_vars

\* ------------------------------------------- requests for one vendor

\* Calls made in one behaviour of SpecVendors.
MaxVendorCalls == 4

\* Every request submits the vendor with tax_id T1.
VendorInitialState == Draft(ValidVendor, EmptyApprovals, <<>>)

VendorUpdates == {CentralUpdate("approved"), DeptUpdate(AllApproved)}

VendorStart(t, fault) ==
    /\ ncalls < MaxVendorCalls
    /\ Start(t, VendorInitialState, fault)

VendorResume(t, update, fault) ==
    /\ ncalls < MaxVendorCalls
    /\ ckpt[t].exists
    /\ Resume(t, update, fault)

NextVendors ==
    \/ \E t \in Threads, f \in Faults : VendorStart(t, f)
    \/ \E t \in Threads, u \in VendorUpdates, f \in Faults : VendorResume(t, u, f)

SpecVendors == Init /\ [][NextVendors]_vars

\* ------------------------------------------- with the foreign keys checked

\* Calls made in one behaviour of SpecFk.
MaxFkCalls == 3

\* The database checks the foreign key of the audit log; no call fails otherwise.
FkChecked == "fk"

FkInitialStates ==
    {Draft(ValidVendor, EmptyApprovals, <<>>),
     Draft([ValidVendor EXCEPT !.name = ""], EmptyApprovals, <<>>)}

FkUpdates == {CentralUpdate("approved"), DeptUpdate(AllApproved)}

FkStart(t, initial_state) ==
    /\ ncalls < MaxFkCalls
    /\ Start(t, initial_state, FkChecked)

FkResume(t, update) ==
    /\ ncalls < MaxFkCalls
    /\ ckpt[t].exists
    /\ Resume(t, update, FkChecked)

\* The request row written by something other than the workflow's own nodes:
\* sync_vendor_state_to_db called directly.
NextFk ==
    \/ \E t \in Threads, s \in FkInitialStates : FkStart(t, s)
    \/ \E t \in Threads, u \in FkUpdates : FkResume(t, u)
    \/ \E rid \in Threads, s \in FkInitialStates : DbSync(rid, s)

SpecFk == Init /\ [][NextFk]_vars

\* ------------------------------------------------- the sync and its failures

\* Calls of sync_vendor_state_to_db made in one behaviour of SpecSync.
MaxSyncOps == 3

\* Where the database fails during a sync: nowhere, before the first statement,
\* at the second.
SyncFaults == {"none", "sync", "requests"}

\* sync_vendor_state_to_db(state), state['request_id'] being rid.
SyncCall(rid, state, fault) ==
    /\ observed.n < MaxSyncOps
    /\ LET r == sync_vendor_state_to_db(state, rid, World, fault)
       IN  /\ SetTables(r.w)
           /\ observed' = [n |-> observed.n + 1, op |-> "sync", thread |-> rid,
                           ok |-> r.err = "", ret |-> state, fault |-> fault]
    /\ UNCHANGED <<ckpt, call, supplied, ncalls, inflight,
                 process, approval_records>>

NextSync == \E rid \in Threads, s \in DbStates, f \in SyncFaults : SyncCall(rid, s, f)

SpecSync == Init /\ [][NextSync]_vars

\* ------------------------------------------------------------ the registry

\* Calls made in one behaviour of SpecRegistry.
MaxRegistryCalls == 3

\* The workflow types callers name: the registered one, and one the registry
\* lists in a comment only.
WorkflowTypes == {"vendor_onboarding", "sku_creation"}

RegistryUpdates == {CentralUpdate("approved"), DeptUpdate(AllApproved)}

\* observed: the last call, the workflow type it named and what it raised.
Called(op, t, workflow_type, r) ==
    /\ SetTables(r.w)
    /\ ckpt' = [ckpt EXCEPT ![t] = r.cp]
    /\ observed' = [n |-> observed.n + 1, op |-> op, thread |-> t,
                    workflow_type |-> workflow_type,
                    raised |-> IF r.ret = Returned THEN "" ELSE r.ret]
    /\ UNCHANGED <<call, supplied, ncalls, inflight, process, approval_records>>

RegistryStart(workflow_type, t, initial_state, fault) ==
    /\ observed.n < MaxRegistryCalls
    /\ Called("start", t, workflow_type,
              execute_workflow_by_type(workflow_type, initial_state, ckpt[t], t, World, fault))

RegistryResume(workflow_type, t, update, fault) ==
    /\ observed.n < MaxRegistryCalls
    /\ Called("resume", t, workflow_type,
              resume_workflow_by_type(workflow_type, ckpt[t], update, t, World, fault))

RegistryInspect(workflow_type, t) ==
    /\ observed.n < MaxRegistryCalls
    /\ Called("inspect", t, workflow_type,
              get_workflow_state_by_type(workflow_type, ckpt[t], t, World))

NextRegistry ==
    \/ \E y \in WorkflowTypes, t \in Threads, s \in FkInitialStates, f \in Faults :
          RegistryStart(y, t, s, f)
    \/ \E y \in WorkflowTypes, t \in Threads, u \in RegistryUpdates, f \in Faults :
          RegistryResume(y, t, u, f)
    \/ \E y \in WorkflowTypes, t \in Threads : RegistryInspect(y, t)

SpecRegistry == Init /\ [][NextRegistry]_vars

\* ------------------------------------------------------------------ claims

Valid(vendor_data) == MissingFields(vendor_data) = <<>>

\* The last call on t was a start that returned.
StartReturned(t) == call[t].op = "start" /\ call[t].ret = Returned

\* The last call on t was a resume made at the central-review interrupt.
ResumedAtCentral(t) ==
    call[t].op = "resume" /\ call[t].at = "central_review" /\ call[t].after = "validate"

\* The last call on t was a resume made at the department interrupt.
ResumedAtDept(t) ==
    call[t].op = "resume" /\ call[t].at = "aggregate" /\ call[t].after = "parallel_routing"

\* C1: when start returns for a valid initial state, the instance is at the
\* first declared interrupt point (central_review is due next) or at END,
\* never at validate, parallel_routing or aggregate.
C1_StartStopsAtInterruptOrEnd ==
    \A t \in Threads :
        StartReturned(t) /\ Valid(call[t].input.vendor_data)
            => ckpt[t].next \in {"central_review", END}

C1_Witness ==
    \E t \in Threads :
        /\ StartReturned(t) /\ Valid(call[t].input.vendor_data)
        /\ ckpt[t].next = "central_review"

\* C2: a start in status DRAFT with non-empty name, category, contact_email
\* and tax_id that returns has suspended before central_review: validate ran
\* last, central_review is due next, current_status is CENTRAL_PENDING and
\* error is None.
C2_ValidStartSuspendsAtCentralReview ==
    \A t \in Threads :
        /\ StartReturned(t)
        /\ call[t].input.current_status = "DRAFT"
        /\ Valid(call[t].input.vendor_data)
        => /\ ckpt[t].next = "central_review"
           /\ ckpt[t].last = "validate"
           /\ ckpt[t].values.current_status = "CENTRAL_PENDING"
           /\ ckpt[t].values.error = <<>>

C2_Witness ==
    \E t \in Threads :
        /\ StartReturned(t)
        /\ call[t].input.current_status = "DRAFT"
        /\ Valid(call[t].input.vendor_data)
        /\ call[t].input.error # <<>>
        /\ ckpt[t].last = "validate"
        /\ ckpt[t].values.current_status = "CENTRAL_PENDING"
        /\ ckpt[t].values.error = <<>>

\* C3: a start whose vendor_data lacks a required field returns without an
\* exception, with the instance at END, current_status REJECTED and an error
\* naming the missing fields, central_review never having run.
C3_MissingFieldIsRejectedNotRaised ==
    \A t \in Threads :
        /\ call[t].op = "start"
        /\ ~HasVendorKeys(call[t].input.vendor_data)
        /\ call[t].ret # DbError
        => /\ call[t].ret = Returned
           /\ ckpt[t].next = END
           /\ ckpt[t].last = "validate"
           /\ ckpt[t].values.current_status = "REJECTED"
           /\ ckpt[t].values.error = MissingError(MissingFields(call[t].input.vendor_data))

\* C4: a resume at the central-review interrupt with
\* central_manager_approval.approved = true that returns has run the fan-out
\* and is suspended after parallel_routing, before aggregate, with
\* current_status DEPT_REVIEW and dept_approvals holding exactly finance,
\* legal and business, all None, whatever the map held before.
C4_CentralApprovalFansOut ==
    \A t \in Threads :
        /\ ResumedAtCentral(t)
        /\ call[t].update.central_manager_approval = "approved"
        /\ call[t].ret = Returned
        => /\ AtDeptInterrupt(ckpt[t])
           /\ ckpt[t].values.current_status = "DEPT_REVIEW"
           /\ ckpt[t].values.dept_approvals = PendingApprovals

C4_Witness ==
    \E t \in Threads :
        /\ ResumedAtCentral(t)
        /\ call[t].update.central_manager_approval = "approved"
        /\ call[t].update.has_dept_approvals
        /\ call[t].update.dept_approvals = AllApproved
        /\ call[t].ret = Returned
        /\ AtDeptInterrupt(ckpt[t])
        /\ ckpt[t].values.dept_approvals = PendingApprovals

\* The update approves some of the three slots and leaves the others pending
\* (left out of the map, or None).
PartialApproval(update) ==
    /\ update.central_manager_approval = Absent
    /\ update.has_dept_approvals
    /\ update.dept_approvals["other"] = Absent
    /\ \A k \in Slots : update.dept_approvals[k] \in {"approved", Absent, None}
    /\ \E k \in Slots : update.dept_approvals[k] = "approved"
    /\ \E k \in Slots : update.dept_approvals[k] # "approved"

\* C5: a resume at the department interrupt that approves only some of the
\* three slots returns with the instance still suspended before aggregate and
\* current_status still DEPT_REVIEW: no terminal, no error.
C5_PartialApprovalKeepsWaiting ==
    \A t \in Threads :
        /\ ResumedAtDept(t)
        /\ PartialApproval(call[t].update)
        /\ call[t].ret # DbError
        => /\ call[t].ret = Returned
           /\ ckpt[t].next = "aggregate"
           /\ ckpt[t].values.current_status = "DEPT_REVIEW"

\* C6: no instance becomes APPROVED unless finance, legal and business each
\* hold a recorded decision with approved = true.
C6_ApprovedOnlyIfAllSlotsApproved ==
    [][\A t \in Threads :
          /\ ckpt[t].values.current_status # "APPROVED"
          /\ ckpt'[t].values.current_status = "APPROVED"
          => \A k \in Slots : ckpt'[t].values.dept_approvals[k] = "approved"]_vars

\* C7: from the department interrupt, the resume that completes the set of
\* slots sent as approved (in one resume or across several, no rejection
\* sent, no database failure) ends at END with current_status APPROVED.
C7_LastApprovalEndsApproved ==
    [][\A t \in Threads :
          /\ supplied[t].active /\ supplied[t].approved # Slots
          /\ supplied'[t].active /\ supplied'[t].approved = Slots
          /\ ~supplied'[t].rejected /\ ~supplied'[t].db_error
          => /\ ckpt'[t].next = END
             /\ ckpt'[t].values.current_status = "APPROVED"]_vars

\* The update records a rejection for exactly one slot and leaves the other
\* two pending (left out of the map, or None).
SingleRejection(update) ==
    /\ update.central_manager_approval = Absent
    /\ update.has_dept_approvals
    /\ \E k \in Slots :
          update.dept_approvals \in {DeptMap({k}, "rejected", rest) : rest \in {Absent, None}}

\* The update records a rejection for some slot.
RecordsRejection(update) ==
    update.has_dept_approvals /\ \E k \in Slots : update.dept_approvals[k] = "rejected"

C9_UpdateMergesKeyByKey ==
    [][\A t \in Threads :
          /\ call'[t].seq # call[t].seq
          /\ call'[t].op = "resume"
          /\ call'[t].update.has_dept_approvals
          /\ \E j \in Slots : call'[t].update.dept_approvals[j] \in Decisions
          => \A k \in Slots :
                /\ call'[t].update.dept_approvals[k] = Absent
                /\ ckpt[t].values.dept_approvals[k] \in Decisions
                => ckpt'[t].values.dept_approvals[k] = ckpt[t].values.dept_approvals[k]]_vars

\* C10: whatever the order in which finance, legal and business arrive, one
\* approved decision per resume, the third resume leaves the instance at END
\* with current_status APPROVED and all three decisions recorded.
C10_ApprovalOrderCommutes ==
    \A t \in Threads :
        /\ supplied[t].one_by_one
        /\ ~supplied[t].db_error
        /\ {supplied[t].order[i] : i \in 1..Len(supplied[t].order)} = Slots
        => /\ ckpt[t].next = END
           /\ ckpt[t].values.current_status = "APPROVED"
           /\ ckpt[t].values.dept_approvals = AllApproved

\* The instance of checkpoint cp is suspended at one of the two interrupts.
Suspended(cp) == AtCentralInterrupt(cp) \/ AtDeptInterrupt(cp)

\* The step is a call on thread t.
CallOn(t) == call'[t].seq # call[t].seq

\* The keys of the state an instance carries, and the columns of its record.
VendorOnboardingStateKeys ==
    {"request_id", "workflow_type", "current_status", "vendor_data",
     "central_manager_approval", "dept_approvals", "risk_assessment", "created_at",
     "updated_at", "error"}

workflow_requests_columns ==
    {"id", "workflow_type", "entity_id", "entity_type", "current_status", "metadata",
     "created_by_user_id", "created_at", "updated_at"}

\* The workflow_requests rows keyed by thread t.
RecordsOf(t, rows) == {r \in rows : r.id = t}

\* C11: a resume on an instance that is not suspended at an interrupt (never
\* started, or already at END) fails (raises instead of returning) and leaves
\* the checkpoint of the instance, values and position, exactly as it was.
C11_ResumeOffInterruptFailsUntouched ==
    [][\A t \in Threads :
          /\ CallOn(t) /\ call'[t].op = "resume"
          /\ ~ckpt[t].exists \/ ckpt[t].next = END
          => /\ call'[t].ret # Returned
             /\ ckpt'[t] = ckpt[t]]_vars

\* C12: the second of two consecutive resumes with the same update, the first
\* having returned, changes neither current_status nor dept_approvals nor the
\* node due next, and records no status transition.
C12_SecondIdenticalResumeIsNoOp ==
    [][\A t \in Threads :
          /\ CallOn(t) /\ call'[t].op = "resume"
          /\ call[t].op = "resume" /\ call[t].ret = Returned
          /\ call'[t].update = call[t].update
          /\ call'[t].ret # DbError
          => /\ ckpt'[t].values.current_status = ckpt[t].values.current_status
             /\ ckpt'[t].values.dept_approvals = ckpt[t].values.dept_approvals
             /\ ckpt'[t].next = ckpt[t].next
             /\ transitions' = transitions]_vars

\* C14: no call exhausts the step budget: the waiting loop of aggregate
\* suspends instead of re-running aggregate until the recursion limit.
C14_WaitingLoopNeverSpins ==
    \A t \in Threads : call[t].ret # GraphRecursionError

\* C13: of two resumes racing on one thread, the one that finds the stored
\* checkpoint advanced since it loaded it is refused (StaleVersionError): its
\* update is not merged, and the checkpoint stays as the other call left it.
C13_RacingResumeIsRefused ==
    [][\A p \in Procs :
          /\ inflight[p].phase = "loaded" /\ inflight'[p].phase = "written"
          /\ ckpt[inflight[p].thread] # inflight[p].base
          => ckpt'[inflight[p].thread] = ckpt[inflight[p].thread]]_vars

\* C15: get_workflow_state is read-only: a call of it, in whatever state the
\* instance is, changes neither the checkpoint (state and position) nor the
\* tables vendors and workflow_requests nor the audit log.
C15_InspectIsReadOnly ==
    [][observed'.n # observed.n /\ observed'.op = "get_workflow_state"
          => /\ ckpt' = ckpt
             /\ vendors' = vendors
             /\ requests' = requests
             /\ transitions' = transitions]_vars

\* Read twice: a suspended instance whose snapshot was returned the second time.
C15_Witness ==
    /\ observed.n = 2
    /\ observed.op = "get_workflow_state"
    /\ observed.ret.current_status = "DEPT_REVIEW"
    /\ ckpt[observed.thread].values = observed.ret
    /\ AtDeptInterrupt(ckpt[observed.thread])

\* C16: load after save returns what was persisted: a
\* load_vendor_state_from_db(request_id) made right after
\* sync_vendor_state_to_db(s) succeeded for that request_id finds the record
\* and returns a state equal to s (status, vendor_data, approvals, error).
C16_LoadAfterSaveReturnsState ==
    [][/\ observed.op = "sync" /\ observed.ok
       /\ observed'.n # observed.n /\ observed'.op = "load"
       /\ observed'.thread = observed.thread
       => observed'.ok /\ observed'.ret = observed.ret]_vars

\* C17: save(load(request_id)) mutates nothing: syncing the state that
\* load_vendor_state_from_db just returned for a persisted record succeeds and
\* leaves every row of vendors and workflow_requests as it was.
C17_SaveOfLoadedChangesNothing ==
    [][observed'.n # observed.n /\ observed'.op = "save_loaded"
          => /\ observed'.ok
             /\ vendors' = vendors
             /\ requests' = requests]_vars

\* A loaded state with recorded approvals was synced back while another
\* request's record was in the tables.
C17_Witness ==
    /\ observed.op = "save_loaded" /\ observed.ok
    /\ observed.ret.dept_approvals = AllApproved
    /\ Cardinality(requests) = 2

\* C18: every instance carries a version (0 when start creates it, one more
\* with every persisted update): the state of a started instance, or its
\* persisted record, has a version.
C18_InstanceCarriesVersion ==
    \A t \in Threads :
        ckpt[t].exists
            => "version" \in VendorOnboardingStateKeys \cup workflow_requests_columns

\* C19: each thread has one durable record of its own: a call on thread t
\* leaves the workflow_requests record of every other thread as it was, and
\* once a node of t has synced its state, exactly one record is keyed by t.
C19_OneRecordPerThread ==
    [][\A t \in Threads :
          CallOn(t)
          => /\ \A u \in Threads \ {t} : RecordsOf(u, requests') = RecordsOf(u, requests)
             /\ ckpt'[t].last # START => Cardinality(RecordsOf(t, requests')) = 1]_vars

\* The status the instance of t had when the call of this step was made, the
\* audit records the step appended, and whether the step is a resume at the
\* central-review interrupt that ended the instance (a central rejection).
StatusBefore(t) ==
    IF call'[t].op = "start" THEN call'[t].input.current_status
    ELSE ckpt[t].values.current_status

Appended == SubSeq(transitions', Len(transitions) + 1, Len(transitions'))

CentralRejection(t) ==
    /\ call'[t].op = "resume" /\ AtCentralInterrupt(ckpt[t])
    /\ call'[t].ret = Returned /\ ckpt'[t].next = END

\* C20: the audit log is append-only and holds exactly one record per
\* successful transition: a call that changes the status of the instance, or
\* ends it by a rejection at central review, appends exactly one record (of
\* that thread, to the new status); a call that changes nothing appends none;
\* no call modifies or removes a record.
C20_OneAuditRecordPerTransition ==
    [][\A t \in Threads :
          CallOn(t)
          => /\ Len(transitions') >= Len(transitions)
             /\ SubSeq(transitions', 1, Len(transitions)) = transitions
             /\ IF ckpt'[t].values.current_status # StatusBefore(t)
                THEN /\ Len(Appended) = 1
                     /\ Appended[1].request_id = t
                     /\ Appended[1].to_status = ckpt'[t].values.current_status
                ELSE IF CentralRejection(t) THEN Len(Appended) = 1
                ELSE Appended = <<>>]_vars

\* The values of the instance of t before the first step of the call of this
\* step: the input of a start, the checkpoint with the update written for a
\* resume.
ValuesBefore(t) ==
    IF call'[t].op = "start" THEN call'[t].input
    ELSE update_state(ckpt[t], call'[t].update).values

\* The node that writes to the database when the status is s.
WriterAt(s) ==
    CASE s = "DRAFT" -> "validate"
      [] s = "CENTRAL_PENDING" -> "parallel_routing"
      [] s = "DEPT_REVIEW" -> "aggregate"
      [] OTHER -> END

\* The call of this step on t ended by a failed database call.
CollaboratorFailed(t) == CallOn(t) /\ call'[t].ret = DbError

\* C21 as claimed: when the database call of a node fails during start or
\* resume, the instance is left at the node that failed with its state as it
\* was before the step, and an error is recorded in the state of the instance.
C21_FailureRecordsErrorInState ==
    [][\A t \in Threads :
          CollaboratorFailed(t)
          => /\ ckpt'[t].next = WriterAt(ckpt'[t].values.current_status)
             /\ ckpt'[t].values.current_status = ValuesBefore(t).current_status
             /\ ckpt'[t].values.error # <<>>
             /\ ckpt'[t].values.error # ValuesBefore(t).error]_vars

\* C21 as amended: the failure is raised to the caller and nothing is recorded
\* in the state.  The instance is left with the node that failed due next and
\* its values as they were before the step (error included); a following
\* resume without an update or with the update of the failed call has,
\* when it returns, run that node.
C21_FailureLeavesNodeDue ==
    [][\A t \in Threads :
          /\ CollaboratorFailed(t)
             => /\ ckpt'[t].next = WriterAt(ckpt'[t].values.current_status)
                /\ ckpt'[t].next \in Nodes
                /\ ckpt'[t].values = ValuesBefore(t)
          /\ /\ call[t].ret = DbError /\ CallOn(t)
             /\ call'[t].op = "resume" /\ call'[t].update \in {NoUpdate, call[t].update}
             /\ call'[t].ret = Returned
             => /\ ckpt'[t].last = ckpt[t].next
                /\ ckpt'[t].values.current_status # ckpt[t].values.current_status]_vars

\* A failed fan-out was retried by a resume without an update, which ran it.
C21_Witness ==
    \E t \in Threads :
        /\ call[t].op = "resume" /\ call[t].update = NoUpdate /\ call[t].ret = Returned
        /\ call[t].at = "parallel_routing" /\ call[t].after = "central_review"
        /\ AtDeptInterrupt(ckpt[t])

\* The step is the first call on t made by a process started after the last
\* one stopped with the instance of t suspended at an interrupt.
FirstCallAfterRestart(t) ==
    /\ CallOn(t)
    /\ process.boots > 1
    /\ call[t].seq <= process.stopped_at
    /\ Suspended(process.stopped[t])

\* C22: a suspended instance survives a process restart: a resume made by the
\* new process with the same thread_id continues from the position and the
\* state the stopped process had persisted.
C22_SuspendedSurvivesRestart ==
    [][\A t \in Threads :
          FirstCallAfterRestart(t) /\ call'[t].op = "resume"
          => \E f \in Faults :
                LET r == resume_workflow(process.stopped[t], call'[t].update, t, World, f)
                IN  ckpt'[t] = r.cp /\ call'[t].ret = r.ret]_vars

\* The step is a save_approval call that committed.
Saved == observed'.n # observed.n /\ observed'.op = "save_approval" /\ observed'.ok

\* C23: after a save_approval call there is one approval record of its
\* (request_id, approval_type) and at most one of every other; the record
\* holds the decision, approver, comments and decided_at of the call, a record
\* that existed is overwritten rather than joined by a second one, and the
\* records of the other slots are as they were.
C23_OneApprovalRecordPerSlot ==
    [][Saved
       => LET rid == observed'.thread
              ty == observed'.ret.approval_type
              sub == observed'.ret.sub
              old == SlotRows(approval_records, rid, ty)
              new == SlotRows(approval_records', rid, ty)
          IN  /\ \A a, b \in approval_records' :
                    a.request_id = b.request_id /\ a.approval_type = b.approval_type
                    => a = b
              /\ Cardinality(new) = 1
              /\ \A a \in new :
                    /\ a.decision = sub.decision
                    /\ a.approver_user_id = sub.approver_user_id
                    /\ a.comments = sub.comments
                    /\ a.decided_at = observed'.ret.decided_at
                    /\ \A o \in old : a.created_at = o.created_at
              /\ approval_records' \ new = approval_records \ old]_vars

\* A decision was submitted again for a slot: its record was overwritten with
\* the other decision while another slot of the request holds its record.
C23_Witness ==
    \E a, b \in approval_records :
        /\ a.request_id = b.request_id /\ a.approval_type # b.approval_type
        /\ a.decided_at > a.created_at
        /\ a.decision = "rejected" /\ a.approver_user_id = "u2"
        /\ observed.op = "save_approval" /\ observed.ok
        /\ observed.ret.approval_type = a.approval_type

\* C24: validate_submission sets current_status to REJECTED exactly when one
\* of name, category, contact_email, tax_id is absent from vendor_data or
\* falsy, with error listing exactly the missing fields in that order;
\* otherwise it sets CENTRAL_PENDING and error None; vendor_data,
\* central_manager_approval and dept_approvals are as in the input.  Stated of
\* a start whose database calls were available.
C24_ValidateRejectsExactlyMissing ==
    \A t \in Threads :
        call[t].op = "start" /\ call[t].ret # DbError
        => LET in == call[t].input
               out == ckpt[t].values
               missing == MissingFields(in.vendor_data)
           IN  /\ (out.current_status = "REJECTED") <=> (missing # <<>>)
               /\ missing # <<>> => out.error = MissingError(missing)
               /\ missing = <<>> => out.current_status = "CENTRAL_PENDING" /\ out.error = <<>>
               /\ out.vendor_data = in.vendor_data
               /\ out.central_manager_approval = in.central_manager_approval
               /\ out.dept_approvals = in.dept_approvals

\* The edges of create_vendor_onboarding_workflow, as changes of status.
WorkflowEdges ==
    {<<"DRAFT", "CENTRAL_PENDING">>, <<"DRAFT", "REJECTED">>,
     <<"CENTRAL_PENDING", "DEPT_REVIEW">>, <<"CENTRAL_PENDING", "REJECTED">>,
     <<"DEPT_REVIEW", "APPROVED">>, <<"DEPT_REVIEW", "REJECTED">>}

\* The audit records of thread t, in insertion order.
TransitionsOf(t) == SelectSeq(transitions, LAMBDA r : r.request_id = t)

\* C25: every audit record of an instance started in DRAFT and resumed with
\* approval payloads follows an edge of the workflow definition, and the
\* records of one thread form a single chain: each from_status is the
\* to_status of the record before it.
C25_AuditRecordsFollowEdgesInOneChain ==
    \A t \in Threads :
        LET rs == TransitionsOf(t)
        IN  \A i \in 1..Len(rs) :
                /\ <<rs[i].from_status, rs[i].to_status>> \in WorkflowEdges
                /\ i > 1 => rs[i].from_status = rs[i - 1].to_status

\* Node n run on state writes nothing: central_review always, aggregate while
\* a department has not responded.
Quiet(n, state) ==
    \/ n = "central_review"
    \/ n = "aggregate" /\ \E v \in Values(state.dept_approvals) : v = None

\* rows is old with one record added at the end.
OneAppended(old, rows) == Len(rows) = Len(old) + 1 /\ SubSeq(rows, 1, Len(old)) = old

\* C26 as claimed: node functions are pure state transformations: running
\* validate, central_review, parallel_routing or aggregate on the state of an
\* instance changes none of vendors, workflow_requests and
\* workflow_state_transitions.
C26_NodesChangeNoStore ==
    \A t \in Threads :
        ckpt[t].exists
        => \A n \in Nodes, f \in Faults : RunNode(n, ckpt[t], t, World, f).w = World

\* C26 as amended: the nodes write the stores themselves.  central_review, and
\* aggregate while a slot is pending, return the state and change no store.
\* validate, parallel_routing and aggregate otherwise append one audit record
\* from the old status to the new one and then upsert the vendor and the
\* request row with the new status; when the node raises, vendors and
\* workflow_requests are as before and the audit log is as before or holds the
\* one record written before the sync failed.
C26_NodesWriteStoresThemselves ==
    \A t \in Threads :
        ckpt[t].exists
        => \A n \in Nodes, f \in Faults :
              LET state == ckpt[t].values
                  r == RunNode(n, ckpt[t], t, World, f)
                  last == r.w.transitions[Len(r.w.transitions)]
              IN  IF Quiet(n, state)
                  THEN r.err = "" /\ r.state = state /\ r.w = World
                  ELSE IF r.err = ""
                  THEN /\ OneAppended(transitions, r.w.transitions)
                       /\ last.request_id = t
                       /\ last.from_status = state.current_status
                       /\ last.to_status = r.state.current_status
                       /\ \E v \in r.w.vendors :
                             /\ v.tax_id = state.vendor_data.tax_id
                             /\ v.status = r.state.current_status
                             /\ \E q \in r.w.requests :
                                   /\ q.entity_id = v.id
                                   /\ q.current_status = r.state.current_status
                  ELSE /\ r.w.vendors = vendors
                       /\ r.w.requests = requests
                       /\ \/ r.w.transitions = transitions
                          \/ OneAppended(transitions, r.w.transitions)

\* parallel_routing has run and written: the audit log holds its record after
\* that of validate, and both mirror rows show DEPT_REVIEW.
C26_Witness ==
    \E t \in Threads :
        /\ ckpt[t].last = "parallel_routing"
        /\ Len(transitions) = 2
        /\ transitions[2].to_status = "DEPT_REVIEW"
        /\ \E v \in vendors : v.status = "DEPT_REVIEW"
        /\ \E q \in requests : q.current_status = "DEPT_REVIEW"

\* The resume at the central-review interrupt carries no approval of the
\* central manager: the key is left out (and the state holds None) or the
\* decision is a rejection.
CentralNotApproved(t) ==
    /\ CallOn(t) /\ call'[t].op = "resume"
    /\ AtCentralInterrupt(ckpt[t])
    /\ update_state(ckpt[t], call'[t].update).values.central_manager_approval # "approved"

\* The instance of t was ended by the central review: central_review ran last,
\* the terminal is reached and the central manager's approval is not recorded.
EndedByCentralReview(t) ==
    /\ ckpt[t].last = "central_review" /\ ckpt[t].next = END
    /\ ckpt[t].values.central_manager_approval # "approved"

\* C27: a resume at the central-review interrupt with central_manager_approval
\* absent or not approved ends the instance at the terminal; parallel_routing
\* and aggregate never run for that instance: no department slot is
\* initialised and current_status never becomes DEPT_REVIEW or APPROVED.
C27_CentralRejectionNeverFansOut ==
    [][\A t \in Threads :
          /\ CentralNotApproved(t) /\ call'[t].ret = Returned
             => /\ ckpt'[t].next = END
                /\ ckpt'[t].last = "central_review"
                /\ ckpt'[t].values.dept_approvals =
                      update_state(ckpt[t], call'[t].update).values.dept_approvals
                /\ ckpt'[t].values.current_status \notin {"DEPT_REVIEW", "APPROVED"}
          /\ EndedByCentralReview(t)
             => /\ ckpt'[t].last \notin {"parallel_routing", "aggregate"}
                /\ ckpt'[t].values.current_status \notin {"DEPT_REVIEW", "APPROVED"}]_vars

\* VendorStatus values at which an onboarding is over.
TerminalStatuses == {"APPROVED", "REJECTED"}

\* C28: an instance that has reached the terminal END (no node is due) has a
\* terminal current_status, APPROVED or REJECTED; none ends at END in DRAFT,
\* CENTRAL_PENDING or DEPT_REVIEW.
C28_EndOnlyWithTerminalStatus ==
    \A t \in Threads :
        ckpt[t].exists /\ ckpt[t].next = END /\ ckpt[t].last \in Nodes
        => ckpt[t].values.current_status \in TerminalStatuses

\* How far along DRAFT, CENTRAL_PENDING, DEPT_REVIEW, then APPROVED or
\* REJECTED a status is.
Rank(status) ==
    CASE status = "DRAFT" -> 0
      [] status = "CENTRAL_PENDING" -> 1
      [] status = "DEPT_REVIEW" -> 2
      [] status \in TerminalStatuses -> 3
      [] OTHER -> 0

\* C29: over the start and the resumes made on one thread current_status only
\* moves forward along DRAFT, CENTRAL_PENDING, DEPT_REVIEW, then APPROVED or
\* REJECTED: no call moves it backwards, and once it is APPROVED or REJECTED
\* no later call changes it.
C29_StatusOnlyMovesForward ==
    [][\A t \in Threads :
          ckpt[t].exists
          => /\ Rank(ckpt'[t].values.current_status) >= Rank(ckpt[t].values.current_status)
             /\ ckpt[t].values.current_status \in TerminalStatuses
                => ckpt'[t].values.current_status = ckpt[t].values.current_status]_vars

\* C30: check_vendor_approved(id) returns the boolean True when a vendor row
\* with that id exists and its status is APPROVED and the boolean False in
\* every other case, the case of no such row included, and changes no stored
\* data.
C30_CheckApprovedReturnsBoolean ==
    [][observed'.n # observed.n /\ observed'.op = "check_vendor_approved"
       => /\ observed'.ret.returned =
                 IF \E v \in vendors : v.id = observed'.thread /\ v.status = "APPROVED"
                 THEN PyTrue ELSE PyFalse
          /\ UNCHANGED <<vendors, requests, transitions, approval_records, ckpt>>]_vars

\* C31: once the row of a vendor has status APPROVED, no later start or resume
\* of any instance, a new request with the same tax_id included, changes the
\* status of the row, and check_vendor_approved stays true for it.
C31_ApprovedVendorStaysApproved ==
    [][\A v \in vendors :
          v.status = "APPROVED"
          => /\ \E x \in vendors' : x.id = v.id /\ x.status = "APPROVED"
             /\ check_vendor_approved(v.id, [vendors |-> vendors', requests |-> requests',
                                             transitions |-> transitions']).ret = PyTrue]_vars

\* What a call raises when sync_vendor_state_to_db or log_state_transition
\* failed inside a node.
SyncFailures == {DbError, SyncKeyError, SyncConflict}

\* C32: the audit log never records a transition that was not persisted: a
\* call in which the database write of a node failed leaves no
\* workflow_state_transitions record of the attempted transition.
C32_FailedSyncLeavesNoAuditRecord ==
    [][\A t \in Threads :
          CallOn(t) /\ call'[t].ret \in SyncFailures
          => transitions' = transitions]_vars

\* C33: every audit record references an existing request: the request row is
\* created before its first transition is logged, so no insert of
\* log_state_transition for request R is refused for want of the row, and
\* whenever a call inserts a record for R a workflow_requests row with id R
\* was written before.
C33_RequestRowBeforeFirstTransition ==
    [][\A t \in Threads :
          CallOn(t)
          => /\ call'[t].ret # ForeignKeyViolation
             /\ TransitionsOf(t)' # TransitionsOf(t) => \E q \in requests : q.id = t]_vars

\* C34: sync_vendor_state_to_db is atomic across its two tables: after a call
\* that returns, the vendors row of the state's vendor and the workflow_requests
\* row of that vendor both carry the state's current_status; after a call that
\* fails, wherever it fails, neither vendors nor workflow_requests has changed.
C34_SyncIsAtomic ==
    [][observed'.n = observed.n + 1
       => LET state == observed'.ret
          IN  IF observed'.ok
              THEN \E v \in vendors' :
                      /\ v.tax_id = state.vendor_data.tax_id
                      /\ v.status = state.current_status
                      /\ \E q \in requests' : /\ q.entity_id = v.id
                                              /\ q.current_status = state.current_status
              ELSE vendors' = vendors /\ requests' = requests]_vars

\* A sync that failed at its second statement, after an insert or an update
\* of vendors that changed the table within the transaction.
C34_Witness ==
    /\ observed.n > 0
    /\ ~observed.ok
    /\ observed.fault = "requests"
    /\ HasVendorKeys(observed.ret.vendor_data)
    /\ UpsertVendor(observed.ret, observed.thread, World).err = ""
    /\ UpsertVendor(observed.ret, observed.thread, World).rows # vendors

\* C35: the database mirror agrees with the checkpoint: after every start or
\* resume call that returns normally, the workflow_requests row of the request
\* and the vendors row it refers to carry the current_status of the instance's
\* checkpointed state.
C35_MirrorAgreesWithCheckpoint ==
    [][\A t \in Threads :
          CallOn(t) /\ call'[t].ret = Returned
          => \E q \in requests' :
                /\ q.id = t
                /\ q.current_status = ckpt'[t].values.current_status
                /\ \E v \in vendors' : /\ v.id = q.entity_id
                                       /\ v.status = ckpt'[t].values.current_status]_vars

\* The return annotation of each routing function.
Literals(n) ==
    CASE n = "validate" -> {"proceed", "reject"}
      [] n = "central_review" -> {"approved", "rejected"}
      [] n = "aggregate" -> {"complete", "waiting"}

\* Routing function of node n, given state, returns one of its literals, the
\* literal is a key of the edge map of n, and the engine goes where the map says.
RoutesDeclared(n, state) ==
    /\ RoutingFunction(n, state) \in Literals(n)
    /\ RoutingFunction(n, state) \in DOMAIN EdgeMap(n)
    /\ EdgeMap(n)[RoutingFunction(n, state)] = Successor(n, state)

\* C36: every conditional routing function of the vendor onboarding graph is
\* total: on every state an instance carries, and on that state with any
\* update a caller writes into it, should_proceed_after_validation returns
\* proceed or reject, should_proceed_after_central_review returns approved or
\* rejected and check_all_dept_approvals_complete returns complete or waiting,
\* each a key of the edge map declared for its node, so that the engine always
\* finds the route.
C36_RoutingFunctionsAreTotal ==
    \A t \in Threads :
        ckpt[t].exists
        => \A n \in RoutedNodes :
              /\ RoutesDeclared(n, ckpt[t].values)
              /\ \A u \in Updates : RoutesDeclared(n, update_state(ckpt[t], u).values)

\* A finished instance whose state takes proceed, approved and complete.
C36_Witness ==
    \E t \in Threads :
        /\ ckpt[t].exists
        /\ ckpt[t].last = "aggregate"
        /\ should_proceed_after_validation(ckpt[t].values) = "proceed"
        /\ should_proceed_after_central_review(ckpt[t].values) = "approved"
        /\ check_all_dept_approvals_complete(ckpt[t].values) = "complete"

\* C37: start, resume and inspect called with a workflow_type that is not in
\* the registry raise ValueError before touching any instance: no checkpoint
\* is created or changed, no node runs, and nothing is written to vendors,
\* workflow_requests or the audit log.
C37_UnknownTypeRaisesAndTouchesNothing ==
    [][observed'.n = observed.n + 1 /\ observed'.workflow_type \notin WORKFLOWS
       => /\ observed'.raised = ValueError
          /\ ckpt' = ckpt
          /\ vendors' = vendors
          /\ requests' = requests
          /\ transitions' = transitions]_vars

\* A resume naming an unknown type on a thread whose instance is suspended.
C37_Witness ==
    /\ observed.n > 0
    /\ observed.op = "resume"
    /\ observed.workflow_type \notin WORKFLOWS
    /\ observed.raised = ValueError
    /\ Suspended(ckpt[observed.thread])

====
